---- MODULE Spec2Model ----
(***************************************************************************)
(* Model of extra/pool/pool.go: a pool of redis clients kept in a buffered *)
(* Go channel.  Every channel operation of the source (a select with a     *)
(* default branch) is one atomic step; Dial and Close are steps of their   *)
(* own, so callers interleave between them as goroutines do.               *)
(***************************************************************************)
EXTENDS Integers, Sequences, FiniteSets, TLC

\* ---- bounds of the model ----
MaxSize == 2        \* largest size argument handed to the constructor
MaxConns == 3       \* how many dials may succeed in one behaviour
Callers == {"c1", "c2"}     \* goroutines using the pool
Conns == 1..MaxConns
Networks == {"tcp"}
Addrs == {"localhost:6379"}
Nil == 0            \* the nil *redis.Client
NoPool == [Network |-> "", Addr |-> "", cap |-> -1, Pool |-> <<>>]   \* the nil *Pool

\* error values; "nilptr" is a nil *error, the others are what the pointer points at
CallerErrs == {"nilptr", "nil", "CmdError", "ConnError"}

VARIABLES
    args,        \* [ctor, network, addr, size]: the constructor call of the program
    npc,         \* position of the constructor
    pool,        \* NewPool's local slice of dialed clients
    nret,        \* what NewPool returned: [p, err]
    p,           \* the Pool struct: Network, Addr, and the channel Pool with its capacity
    nextConn,    \* next client handle redis.Dial hands out
    closeCount,  \* closeCount[c]: number of Close() calls the pool made on c
    pc,          \* pc[self]: position of caller self
    op,          \* op[self]: the exported method self is (or was last) running
    conn,        \* conn[self]: the conn variable of the running method
    err,         \* err[self]: the err / potentialErr of the running method
    held,        \* held[self]: client the caller got from Get and has not released
    hist         \* hist[self]: what the running (or last) call did

vars == <<args, npc, pool, nret, p, nextConn, closeCount, pc, op, conn, err, held, hist>>
ctorVars == <<args, npc, pool, nret>>

\* polled .. closed: what a Get, Put or CarefullyPut did; todo: how many clients a
\* running Empty found buffered when it was called, less the Close calls it has made
NoHist == [polled |-> "none", dials |-> 0, dialNet |-> "", dialAddr |-> "",
           dialConn |-> Nil, dialErr |-> "nil", pushed |-> FALSE, closed |-> FALSE,
           todo |-> 0]

Init ==
    /\ args \in [ctor : {"NewPool", "NewOrEmptyPool"}, network : Networks,
                 addr : Addrs, size : 0..MaxSize]
    /\ npc = "NewPool"
    /\ pool = <<>>
    /\ nret = [p |-> NoPool, err |-> "nil"]
    /\ p = NoPool
    /\ nextConn = 1
    /\ closeCount = [c \in Conns |-> 0]
    /\ pc = [self \in Callers |-> "idle"]
    /\ op = [self \in Callers |-> "none"]
    /\ conn = [self \in Callers |-> Nil]
    /\ err = [self \in Callers |-> "nil"]
    /\ held = [self \in Callers |-> Nil]
    /\ hist = [self \in Callers |-> NoHist]

\* ---- redis.Dial and Close (collaborators) ----

\* the results redis.Dial can produce: a fresh client with no error, or nil with an error
DialResults ==
    {[conn |-> Nil, err |-> "DialError"]} \cup
    (IF nextConn <= MaxConns THEN {[conn |-> nextConn, err |-> "nil"]} ELSE {})

\* (mutant) the Close call is missing
Close_missing(c) == closeCount

\* conn.Close() (pool.go 77 and 124)
Close(c) == [closeCount EXCEPT ![c] = @ + 1]

\* ---- constructors ----

\* (mutant) a dial loop that closes the clients it already dialed before it returns
\* the error
NewPool_Dial_closing ==
    /\ npc = "NewPool"
    /\ Len(pool) < args.size
    /\ \E r \in DialResults :
        IF r.err # "nil"
        THEN /\ nret' = [p |-> NoPool, err |-> r.err]
             /\ npc' = IF args.ctor = "NewOrEmptyPool" THEN "NewOrEmptyPool" ELSE "failed"
             /\ closeCount' = [c \in Conns |->
                                 IF \E i \in 1..Len(pool) : pool[i] = c
                                 THEN closeCount[c] + 1 ELSE closeCount[c]]
             /\ UNCHANGED <<pool, nextConn>>
        ELSE /\ pool' = Append(pool, r.conn)
             /\ nextConn' = nextConn + 1
             /\ UNCHANGED <<nret, npc, closeCount>>
    /\ UNCHANGED <<args, p, pc, op, conn, err, held, hist>>

\* NewPool, one iteration of the dial loop (pool.go 24-28)
NewPool_Dial ==
    /\ npc = "NewPool"
    /\ Len(pool) < args.size
    /\ \E r \in DialResults :
        IF r.err # "nil"
        THEN /\ nret' = [p |-> NoPool, err |-> r.err]
             /\ npc' = IF args.ctor = "NewOrEmptyPool" THEN "NewOrEmptyPool" ELSE "failed"
             /\ UNCHANGED <<pool, nextConn>>
        ELSE /\ pool' = Append(pool, r.conn)
             /\ nextConn' = nextConn + 1
             /\ UNCHANGED <<nret, npc>>
    /\ UNCHANGED <<args, p, closeCount, pc, op, conn, err, held, hist>>

\* (mutant) the dialed clients are not pushed into the new channel
NewPool_Fill_noPush ==
    /\ npc = "NewPool"
    /\ Len(pool) = args.size
    /\ LET made == [Network |-> args.network, Addr |-> args.addr,
                    cap |-> Len(pool), Pool |-> <<>>]
       IN /\ nret' = [p |-> made, err |-> "nil"]
          /\ p' = made
    /\ npc' = "done"
    /\ UNCHANGED <<args, pool, nextConn, closeCount, pc, op, conn, err, held, hist>>

\* NewPool, after the dial loop: make the channel, push the clients, return (pool.go 29-37)
NewPool_Fill ==
    /\ npc = "NewPool"
    /\ Len(pool) = args.size
    /\ LET made == [Network |-> args.network, Addr |-> args.addr,
                    cap |-> Len(pool), Pool |-> pool]
       IN /\ nret' = [p |-> made, err |-> "nil"]
          /\ p' = made
    /\ npc' = "done"
    /\ UNCHANGED <<args, pool, nextConn, closeCount, pc, op, conn, err, held, hist>>

\* (mutant) the replacement pool's channel is made without the size
NewOrEmptyPool_unbuffered ==
    /\ npc = "NewOrEmptyPool"
    /\ LET made == [Network |-> args.network, Addr |-> args.addr,
                    cap |-> 0, Pool |-> <<>>]
       IN p' = made
    /\ npc' = "done"
    /\ UNCHANGED <<args, pool, nret, nextConn, closeCount, pc, op, conn, err, held, hist>>

\* NewOrEmptyPool, the err != nil branch (pool.go 46-53)
NewOrEmptyPool ==
    /\ npc = "NewOrEmptyPool"
    /\ LET made == [Network |-> args.network, Addr |-> args.addr,
                    cap |-> args.size, Pool |-> <<>>]
       IN p' = made
    /\ npc' = "done"
    /\ UNCHANGED <<args, pool, nret, nextConn, closeCount, pc, op, conn, err, held, hist>>

\* ---- callers: goroutines that got the pool from the constructor ----
\* A caller holds at most one client at a time: it calls Get when it holds none, releases
\* the client it holds with Put or CarefullyPut, and may call Empty at any time.  A step
\* is a channel operation, a Dial or a Close together with the local statements that
\* lead to it and follow it (the call, the check of CarefullyPut, the return).

Ready(self) == npc = "done" /\ pc[self] = "idle"

\* (mutant) Get returns a nil client whatever it popped or dialed
Return_nilConn(self, c, e) ==
    /\ pc' = [pc EXCEPT ![self] = "idle"]
    /\ conn' = [conn EXCEPT ![self] = Nil]
    /\ held' = [held EXCEPT ![self] = Nil]

\* Put or CarefullyPut on client c returns.  Called from the caller, the call is over
\* and the caller has given c away; called from Get (pool.go 64), Get returns conn, err
\* (pool.go 65) and the caller keeps the client when err is nil.
Return(self, c, e) ==
    /\ pc' = [pc EXCEPT ![self] = "idle"]
    /\ IF op'[self] = "Get"
       THEN /\ conn' = [conn EXCEPT ![self] = c]
            /\ held' = [held EXCEPT ![self] = IF e = "nil" THEN c ELSE Nil]
       ELSE /\ conn' = [conn EXCEPT ![self] = Nil]
            /\ held' = [held EXCEPT ![self] = Nil]

\* ---- Pool.Put ----

\* (mutant) a send proceeds also when the buffer already holds cap clients
CanSend_offByOne(ch) == Len(ch.Pool) <= ch.cap

\* (mutant) a send never finds room: every released client is closed
CanSend_never(ch) == FALSE

\* a send on the buffered channel can proceed
CanSend(ch) == Len(ch.Pool) < ch.cap

\* (mutant) a receive never finds a buffered client
CanRecv_never(ch) == FALSE

\* (mutant) a receive leaves the last buffered client where it is
CanRecv_notLast(ch) == Len(ch.Pool) > 1

\* a receive on the buffered channel can proceed
CanRecv(ch) == Len(ch.Pool) > 0

\* (mutant) a plain send p.Pool <- conn without the select: it waits for room
PutSelect_blocking(self, c, e, h) ==
    /\ CanSend(p)
    /\ p' = [p EXCEPT !.Pool = Append(@, c)]
    /\ hist' = [hist EXCEPT ![self] = [h EXCEPT !.pushed = TRUE]]
    /\ Return(self, c, e)

\* the select of Put (pool.go 74-76) on client c: push and return, or fall to the
\* default branch; e is the err of the Get that runs this Put, h the call's history
PutSelect(self, c, e, h) ==
    IF CanSend(p)
    THEN /\ p' = [p EXCEPT !.Pool = Append(@, c)]
         /\ hist' = [hist EXCEPT ![self] = [h EXCEPT !.pushed = TRUE]]
         /\ Return(self, c, e)
    ELSE /\ p' = p
         /\ hist' = [hist EXCEPT ![self] = h]
         /\ pc' = [pc EXCEPT ![self] = "Put_Close"]
         /\ conn' = [conn EXCEPT ![self] = c]
         /\ held' = [held EXCEPT ![self] = Nil]

\* the caller calls p.Put(conn) with the client it holds (pool.go 73-76)
Put(self) ==
    /\ Ready(self)
    /\ held[self] # Nil
    /\ op' = [op EXCEPT ![self] = "Put"]
    /\ err' = [err EXCEPT ![self] = "nil"]
    /\ PutSelect(self, held[self], "nil", NoHist)
    /\ UNCHANGED <<ctorVars, nextConn, closeCount>>

\* conn.Close() in the default branch of Put (pool.go 77), and the return
Put_Close(self) ==
    /\ pc[self] = "Put_Close"
    /\ closeCount' = Close(conn[self])
    /\ hist' = [hist EXCEPT ![self].closed = TRUE]
    /\ op' = op
    /\ Return(self, conn[self], err[self])
    /\ UNCHANGED <<ctorVars, p, nextConn, err>>

\* ---- Pool.CarefullyPut ----

\* (mutant) the check is missing: CarefullyPut is Put
IsConnLevel_never(e) == FALSE

\* (mutant) only the errors a command reports count; a failed Dial's error does not
IsConnLevel_notDial(e) == e = "ConnError"

\* (mutant) the type assertion on *redis.CmdError is missing: every non-nil error counts
IsConnLevel_noCmdCheck(e) == e # "nilptr" /\ e # "nil"

\* potentialErr != nil && *potentialErr != nil && it is not a *redis.CmdError (pool.go 106-109)
IsConnLevel(e) == e # "nilptr" /\ e # "nil" /\ e # "CmdError"

\* the body of CarefullyPut (pool.go 106-113): return, or p.Put(conn)
CarefullyPutBody(self, c, e, h) ==
    IF IsConnLevel(e)
    THEN /\ p' = p
         /\ hist' = [hist EXCEPT ![self] = h]
         /\ Return(self, c, e)
    ELSE PutSelect(self, c, e, h)

\* the caller calls p.CarefullyPut(conn, potentialErr) with the client it holds
CarefullyPut(self) ==
    /\ Ready(self)
    /\ held[self] # Nil
    /\ op' = [op EXCEPT ![self] = "CarefullyPut"]
    /\ \E e \in CallerErrs :
        /\ err' = [err EXCEPT ![self] = e]
        /\ CarefullyPutBody(self, held[self], e, NoHist)
    /\ UNCHANGED <<ctorVars, nextConn, closeCount>>

\* ---- Pool.Get ----

\* the caller calls p.Get(); the select of Get (pool.go 59-62): pop and return conn, nil,
\* or fall to the default branch
Get(self) ==
    /\ Ready(self)
    /\ held[self] = Nil
    /\ op' = [op EXCEPT ![self] = "Get"]
    /\ err' = [err EXCEPT ![self] = "nil"]
    /\ IF CanRecv(p)
       THEN /\ p' = [p EXCEPT !.Pool = Tail(@)]
            /\ hist' = [hist EXCEPT ![self] = [NoHist EXCEPT !.polled = "conn"]]
            /\ Return(self, Head(p.Pool), "nil")
       ELSE /\ p' = p
            /\ hist' = [hist EXCEPT ![self] = [NoHist EXCEPT !.polled = "empty"]]
            /\ pc' = [pc EXCEPT ![self] = "Get_Dial"]
            /\ conn' = [conn EXCEPT ![self] = Nil]
            /\ held' = held
    /\ UNCHANGED <<ctorVars, nextConn, closeCount>>

\* the default branch of Get (pool.go 63-65): conn, err := redis.Dial(p.Network, p.Addr),
\* then p.CarefullyPut(conn, &err)
Get_Dial(self) ==
    /\ pc[self] = "Get_Dial"
    /\ op' = op
    /\ \E r \in DialResults :
        /\ err' = [err EXCEPT ![self] = r.err]
        /\ nextConn' = IF r.conn # Nil THEN nextConn + 1 ELSE nextConn
        /\ CarefullyPutBody(self, r.conn, r.err,
                            [hist[self] EXCEPT !.dials = @ + 1,
                                               !.dialNet = p.Network,
                                               !.dialAddr = p.Addr,
                                               !.dialConn = r.conn,
                                               !.dialErr = r.err])
    /\ UNCHANGED <<ctorVars, closeCount>>

\* ---- Pool.Empty ----

\* (mutant) an Empty that also closes the pool: once drained, the buffer takes no client
EmptySelect_shrink(self, h) ==
    IF CanRecv(p)
    THEN /\ p' = [p EXCEPT !.Pool = Tail(@)]
         /\ conn' = [conn EXCEPT ![self] = Head(p.Pool)]
         /\ pc' = [pc EXCEPT ![self] = "Empty_Close"]
         /\ hist' = [hist EXCEPT ![self] = h]
    ELSE /\ p' = [p EXCEPT !.cap = 0]
         /\ conn' = [conn EXCEPT ![self] = Nil]
         /\ pc' = [pc EXCEPT ![self] = "idle"]
         /\ hist' = [hist EXCEPT ![self] = [h EXCEPT !.todo = 0]]

\* the select of Empty's loop (pool.go 122-126): pop a client, or return; h is the
\* call's history
EmptySelect(self, h) ==
    IF CanRecv(p)
    THEN /\ p' = [p EXCEPT !.Pool = Tail(@)]
         /\ conn' = [conn EXCEPT ![self] = Head(p.Pool)]
         /\ pc' = [pc EXCEPT ![self] = "Empty_Close"]
         /\ hist' = [hist EXCEPT ![self] = h]
    ELSE /\ p' = p
         /\ conn' = [conn EXCEPT ![self] = Nil]
         /\ pc' = [pc EXCEPT ![self] = "idle"]
         /\ hist' = [hist EXCEPT ![self] = [h EXCEPT !.todo = 0]]

\* the caller calls p.Empty(): the first iteration of the loop
Empty(self) ==
    /\ Ready(self)
    /\ op' = [op EXCEPT ![self] = "Empty"]
    /\ err' = [err EXCEPT ![self] = "nil"]
    /\ EmptySelect(self, [NoHist EXCEPT !.todo = Len(p.Pool)])
    /\ UNCHANGED <<ctorVars, nextConn, closeCount, held>>

\* conn.Close() in Empty's loop (pool.go 124)
Empty_Close(self) ==
    /\ pc[self] = "Empty_Close"
    /\ closeCount' = Close(conn[self])
    /\ hist' = [hist EXCEPT ![self].todo = @ - 1]
    /\ pc' = [pc EXCEPT ![self] = "Empty_loop"]
    /\ UNCHANGED <<ctorVars, p, nextConn, op, conn, err, held>>

\* a later iteration of Empty's loop (pool.go 121-127)
Empty_loop(self) ==
    /\ pc[self] = "Empty_loop"
    /\ EmptySelect(self, hist[self])
    /\ UNCHANGED <<ctorVars, nextConn, closeCount, op, err, held>>

\* ---- the program ----

Next ==
    \/ NewPool_Dial
    \/ NewPool_Fill
    \/ NewOrEmptyPool
    \/ \E self \in Callers :
        \/ Get(self)
        \/ Get_Dial(self)
        \/ Put(self)
        \/ Put_Close(self)
        \/ CarefullyPut(self)
        \/ Empty(self)
        \/ Empty_Close(self)
        \/ Empty_loop(self)

Spec == Init /\ [][Next]_vars

\* the steps of caller self
CallerNext(self) ==
    \/ Get(self)
    \/ Get_Dial(self)
    \/ Put(self)
    \/ Put_Close(self)
    \/ CarefullyPut(self)
    \/ Empty(self)
    \/ Empty_Close(self)
    \/ Empty_loop(self)

\* the program with no two calls running concurrently: a caller takes a step only
\* while every other caller is between calls
NextSeq ==
    \/ NewPool_Dial
    \/ NewPool_Fill
    \/ NewOrEmptyPool
    \/ \E self \in Callers :
        /\ \A other \in Callers \ {self} : pc[other] = "idle"
        /\ CallerNext(self)

SpecSeq == Init /\ [][NextSeq]_vars

TypeOK ==
    /\ npc \in {"NewPool", "NewOrEmptyPool", "done", "failed"}
    /\ nextConn \in 1..MaxConns + 1
    /\ \A c \in Conns : closeCount[c] \in 0..2
    /\ \A self \in Callers :
        /\ pc[self] \in {"idle", "Get_Dial", "Put_Close", "Empty_Close", "Empty_loop"}
        /\ conn[self] \in {Nil} \cup Conns
        /\ held[self] \in {Nil} \cup Conns

\* ---- what the claims speak about ----

\* the idle buffer, and how often client c is in it
Idle == p.Pool
InIdle(c) == Cardinality({i \in 1..Len(Idle) : Idle[i] = c})

\* the callers that hold client c
Holders(c) == {self \in Callers : held[self] = c}

\* sequence s without its i-th element
RemoveAt(s, i) == SubSeq(s, 1, i - 1) \o SubSeq(s, i + 1, Len(s))

\* this step is caller self calling Get / Put / CarefullyPut
GetCalled(self) ==
    /\ pc[self] = "idle" /\ held[self] = Nil /\ op'[self] = "Get"
    /\ (held'[self] # Nil \/ pc'[self] = "Get_Dial")
PutCalled(self) ==
    /\ pc[self] = "idle" /\ held[self] # Nil /\ held'[self] = Nil /\ op'[self] = "Put"
CarefullyPutCalled(self) ==
    /\ pc[self] = "idle" /\ held[self] # Nil /\ held'[self] = Nil
    /\ op'[self] = "CarefullyPut"

\* this step is caller self leaving the default branch of Put, or finishing its Dial
PutClosed(self) == pc[self] = "Put_Close" /\ pc'[self] # "Put_Close"
DialDone(self) == pc[self] = "Get_Dial" /\ pc'[self] # "Get_Dial"

\* ---- C1 ----
\* C1: whatever size >= 0 the pool was constructed with and however Get, Put,
\* CarefullyPut and Empty interleave, the idle buffer never holds more than size clients.
Thm_C1 == npc = "done" => Len(Idle) <= args.size

\* a Put found the buffer full and closed its client; the buffer holds size >= 1 clients
Wit_C1 ==
    /\ args.size >= 1
    /\ Len(Idle) = args.size
    /\ \E self \in Callers : pc[self] = "idle" /\ op[self] = "Put" /\ hist[self].closed

\* ---- C2 ----
\* C2: every client has at most one owner: the callers holding it and its places in
\* the idle buffer are together at most one, also for a client Get had to dial.
Cex_C2 == \A c \in Conns : Cardinality(Holders(c)) + InIdle(c) <= 1

\* ---- C3 ----
\* C3: when a caller's CarefullyPut(conn, err) with a connection-level err returns,
\* conn is not in the idle buffer.
Cex_C3 ==
    [][\A self \in Callers :
          CarefullyPutCalled(self) /\ err'[self] = "ConnError" /\ pc'[self] = "idle"
          => \A i \in 1..Len(Idle') : Idle'[i] # held[self]]_vars

\* ---- C4 ----
\* C4: no client in the idle buffer is one the pool has called Close on.
Cex_C4 == \A i \in 1..Len(Idle) : closeCount[Idle[i]] = 0

\* ---- C5 ----
\* C5: the pool has called Close on no client that a caller holds (size 0 included).
Cex_C5 == \A self \in Callers : held[self] # Nil => closeCount[held[self]] = 0

\* ---- C6 ----
\* C6: Put(conn) has two outcomes, decided by the buffer at its select: with fewer than
\* size clients buffered, conn is appended, nothing is closed and Put returns; with size
\* clients buffered the buffer stays as it is and Put goes on to close conn, which is
\* one Close call on conn and no change of the buffer.
Thm_C6 ==
    [][\A self \in Callers :
          /\ PutCalled(self) =>
                IF Len(Idle) < args.size
                THEN /\ Idle' = Append(Idle, held[self])
                     /\ closeCount' = closeCount
                     /\ pc'[self] = "idle"
                     /\ ~hist'[self].closed
                ELSE /\ Idle' = Idle
                     /\ closeCount' = closeCount
                     /\ pc'[self] = "Put_Close"
                     /\ conn'[self] = held[self]
          /\ PutClosed(self) /\ op[self] = "Put" =>
                /\ Idle' = Idle
                /\ closeCount' = [closeCount EXCEPT ![conn[self]] = @ + 1]
                /\ pc'[self] = "idle"]_vars

\* size 1: one caller's Put found the one place taken and closed its client, another
\* caller's Put found it free and buffered its client
Wit_C6 ==
    /\ args.size = 1
    /\ Len(Idle) = 1
    /\ \E a, b \in Callers :
        /\ pc[a] = "idle" /\ op[a] = "Put" /\ hist[a].closed /\ ~hist[a].pushed
        /\ pc[b] = "idle" /\ op[b] = "Put" /\ hist[b].pushed /\ ~hist[b].closed

\* ---- C7 ----
\* C7: a Get that polls a non-empty buffer returns one of the buffered clients with a
\* nil error, takes exactly that one out of the buffer and does not dial.
Thm_C7 ==
    [][\A self \in Callers :
          GetCalled(self) /\ Len(Idle) > 0 =>
             /\ \E i \in 1..Len(Idle) :
                   /\ held'[self] = Idle[i]
                   /\ conn'[self] = Idle[i]
                   /\ Idle' = RemoveAt(Idle, i)
             /\ err'[self] = "nil"
             /\ pc'[self] = "idle"
             /\ hist'[self].dials = 0
             /\ nextConn' = nextConn
             /\ closeCount' = closeCount]_vars

\* a Get has returned a client it popped from the buffer
Wit_C7 ==
    \E self \in Callers :
        /\ pc[self] = "idle" /\ op[self] = "Get"
        /\ hist[self].polled = "conn" /\ held[self] # Nil

\* ---- C8 ----
\* C8: a Get that polled an empty buffer has, when it returns, called Dial exactly once,
\* with the pool's Network and Addr, and returns the client and the error of that Dial.
Thm_C8 ==
    \A self \in Callers :
        op[self] = "Get" /\ hist[self].polled = "empty" =>
            /\ hist[self].dials <= 1
            /\ pc[self] = "Get_Dial" <=> hist[self].dials = 0
            /\ pc[self] = "idle" =>
                /\ hist[self].dials = 1
                /\ hist[self].dialNet = p.Network /\ hist[self].dialNet = args.network
                /\ hist[self].dialAddr = p.Addr /\ hist[self].dialAddr = args.addr
                /\ conn[self] = hist[self].dialConn
                /\ err[self] = hist[self].dialErr
                /\ held[self] = IF err[self] = "nil" THEN hist[self].dialConn ELSE Nil

\* a Get that found the buffer empty has returned the client it dialed
Wit_C8 ==
    \E self \in Callers :
        /\ pc[self] = "idle" /\ op[self] = "Get"
        /\ hist[self].polled = "empty" /\ hist[self].dialConn # Nil
        /\ held[self] = hist[self].dialConn

\* ---- C9 ----
\* C9: a Get that finds the buffer empty and whose Dial fails returns a nil client and
\* the dial error after that one Dial; neither its select nor its Dial step changes the
\* idle buffer or closes a client.
Thm_C9 ==
    [][\A self \in Callers :
          /\ GetCalled(self) /\ Len(Idle) = 0 =>
                Idle' = Idle /\ closeCount' = closeCount /\ pc'[self] = "Get_Dial"
          /\ DialDone(self) /\ hist'[self].dialErr # "nil" =>
                /\ Idle' = Idle
                /\ closeCount' = closeCount
                /\ pc'[self] = "idle"
                /\ conn'[self] = Nil /\ held'[self] = Nil
                /\ err'[self] = hist'[self].dialErr
                /\ hist'[self].dials = 1
                /\ ~hist'[self].pushed /\ ~hist'[self].closed]_vars

\* a Get has returned the error of its failed Dial
Wit_C9 ==
    \E self \in Callers :
        /\ pc[self] = "idle" /\ op[self] = "Get"
        /\ hist[self].polled = "empty" /\ hist[self].dialErr = "DialError"
        /\ err[self] = "DialError" /\ conn[self] = Nil

\* ---- C10 ----
\* C10: CarefullyPut(conn, err) with err a nil pointer, a pointer at nil or a
\* *redis.CmdError takes exactly the step Put(conn) takes from the same state (the
\* same buffer afterwards, the same way on to Close), and its default branch closes
\* conn once, as Put's does.
Benign == {"nilptr", "nil", "CmdError"}

Thm_C10 ==
    [][\A self \in Callers :
          /\ CarefullyPutCalled(self) /\ err'[self] \in Benign =>
                PutSelect(self, held[self], "nil", NoHist)
          /\ PutClosed(self) /\ op[self] = "CarefullyPut" =>
                /\ Idle' = Idle
                /\ closeCount' = [closeCount EXCEPT ![conn[self]] = @ + 1]
                /\ pc'[self] = "idle"]_vars

\* a CarefullyPut with a command error has buffered its client, and one with a nil
\* error pointer has closed its client
Wit_C10 ==
    \E a, b \in Callers :
        /\ pc[a] = "idle" /\ op[a] = "CarefullyPut" /\ err[a] = "CmdError" /\ hist[a].pushed
        /\ pc[b] = "idle" /\ op[b] = "CarefullyPut" /\ err[b] = "nilptr" /\ hist[b].closed

\* ---- C11 ----
\* C11: with no other call running concurrently, Empty pops every client that was
\* buffered when it was called and calls Close once on each client it pops and on
\* nothing else; it returns only with the buffer empty and nothing left to close, and
\* an Empty called on an empty buffer (a second Empty right after) returns at once,
\* changing and closing nothing.
EmptyPoll(self) == Empty(self) \/ Empty_loop(self)

Thm_C11 ==
    [][\A self \in Callers :
          /\ EmptyPoll(self) /\ Len(Idle) > 0 =>
                /\ conn'[self] = Head(Idle)
                /\ Idle' = Tail(Idle)
                /\ closeCount' = closeCount
                /\ pc'[self] = "Empty_Close"
          /\ Empty_Close(self) =>
                /\ closeCount' = [closeCount EXCEPT ![conn[self]] = @ + 1]
                /\ Idle' = Idle
                /\ pc'[self] = "Empty_loop"
          /\ pc'[self] \in {"Empty_Close", "Empty_loop"} =>
                hist'[self].todo =
                    Len(Idle') + (IF pc'[self] = "Empty_Close" THEN 1 ELSE 0)
          /\ EmptyPoll(self) /\ Len(Idle) = 0 =>
                /\ pc'[self] = "idle"
                /\ Idle' = <<>>
                /\ closeCount' = closeCount
                /\ Empty_loop(self) => hist[self].todo = 0]_vars

\* NewPool(size 2) succeeded and an Empty, the only call so far that dialed or closed
\* anything, has closed both buffered clients and is about to return
Wit_C11 ==
    \E self \in Callers :
        /\ pc[self] = "Empty_loop" /\ op[self] = "Empty"
        /\ Len(pool) = 2 /\ nextConn = 3
        /\ Idle = <<>>
        /\ hist[self].todo = 0
        /\ closeCount[1] = 1 /\ closeCount[2] = 1

\* ---- C12 ----
\* C12: for every size >= 0, when NewPool returns after size successful dials it returns
\* a nil error and a pool with the given network and address whose buffer has capacity
\* size and holds exactly the size clients it dialed; when a dial fails it returns that
\* dial's error and a nil pool, having dialed fewer than size clients.
NewPoolReturns == npc = "NewPool" /\ npc' # "NewPool"

Thm_C12 ==
    [][NewPoolReturns =>
          IF nret'.err = "nil"
          THEN /\ Len(pool) = args.size
               /\ nextConn = args.size + 1
               /\ pool = [i \in 1..args.size |-> i]
               /\ nret'.p.Network = args.network
               /\ nret'.p.Addr = args.addr
               /\ nret'.p.cap = args.size
               /\ nret'.p.Pool = pool
               /\ p' = nret'.p
               /\ npc' = "done"
          ELSE /\ nret'.err = "DialError"
               /\ nret'.p = NoPool
               /\ Len(pool) < args.size
               /\ nextConn = Len(pool) + 1
               /\ p' = NoPool]_vars

\* NewPool(size 2) has just returned a pool that holds the two clients it dialed
Wit_C12 ==
    /\ npc = "done" /\ args.size = 2
    /\ nret.err = "nil" /\ nret.p.cap = 2 /\ nret.p.Pool = <<1, 2>>
    /\ p = nret.p
    /\ \A self \in Callers : op[self] = "none"

\* ---- C13 ----
\* C13: NewOrEmptyPool never ends without a pool: when NewPool succeeded it returns
\* NewPool's pool, and when a dial failed it returns a pool with the given network and
\* address whose buffer is empty and has capacity size; that pool keeps its network,
\* address and capacity, and a later Put buffers its client whenever the buffer holds
\* fewer than size clients.
Thm_C13 ==
    [][args.ctor = "NewOrEmptyPool" =>
          /\ npc' # "failed"
          /\ npc # "done" /\ npc' = "done" =>
                IF nret'.err = "nil"
                THEN p' = nret'.p
                ELSE p' = [Network |-> args.network, Addr |-> args.addr,
                           cap |-> args.size, Pool |-> <<>>]
          /\ npc' = "done" =>
                /\ p'.Network = args.network
                /\ p'.Addr = args.addr
                /\ p'.cap = args.size
          /\ \A self \in Callers :
                PutCalled(self) /\ nret.err # "nil" /\ Len(Idle) < args.size =>
                    Idle' = Append(Idle, held[self]) /\ closeCount' = closeCount]_vars

\* NewOrEmptyPool(size 2) replaced the pool of a failed NewPool, and a Put has since
\* filled its buffer up to size
Wit_C13 ==
    /\ args.ctor = "NewOrEmptyPool" /\ args.size = 2
    /\ npc = "done" /\ nret.err = "DialError" /\ nret.p = NoPool
    /\ Len(Idle) = 2
    /\ \E self \in Callers : pc[self] = "idle" /\ op[self] = "Put" /\ hist[self].pushed

\* ---- C14 ----
\* C14: a Put and a Get never wait for another caller: in every reachable state a
\* caller that holds a client can take the first step of Put, a caller that holds none
\* the first step of Get, and a caller inside Put or Get its next step, whatever the
\* buffer holds; each such step ends the call or leads to the call's next step, and the
\* Close of Put ends it, so a Put ends within two and a Get within three of its own
\* steps.
Thm_C14 ==
    npc = "done" =>
        \A self \in Callers :
            /\ pc[self] = "idle" /\ held[self] # Nil =>
                  ENABLED (Put(self) /\ pc'[self] \in {"idle", "Put_Close"})
            /\ pc[self] = "idle" /\ held[self] = Nil =>
                  ENABLED (Get(self) /\ pc'[self] \in {"idle", "Get_Dial"})
            /\ pc[self] = "Get_Dial" =>
                  ENABLED (Get_Dial(self) /\ pc'[self] \in {"idle", "Put_Close"})
            /\ pc[self] = "Put_Close" =>
                  ENABLED (Put_Close(self) /\ pc'[self] = "idle")
            /\ op[self] \in {"Get", "Put"} => pc[self] \in {"idle", "Get_Dial", "Put_Close"}

\* a Put found the buffer full and went on to its Close instead of waiting, while
\* another caller holds a client it can still release
Wit_C14 ==
    /\ npc = "done" /\ args.size >= 1
    /\ \E a \in Callers : pc[a] = "Put_Close" /\ op[a] = "Put" /\ Len(Idle) = args.size
    /\ \E b \in Callers : pc[b] = "idle" /\ held[b] # Nil

\* ---- C17 ----
\* C17: a CarefullyPut whose *err is a connection-level error (not nil, not a
\* *redis.CmdError) returns at once: the buffer and every Close count are unchanged,
\* the client is neither pushed nor closed, and the call is over.
Thm_C17 ==
    [][\A self \in Callers :
          CarefullyPutCalled(self) /\ err'[self] = "ConnError" =>
              /\ Idle' = Idle
              /\ closeCount' = closeCount
              /\ pc'[self] = "idle"
              /\ ~hist'[self].pushed /\ ~hist'[self].closed]_vars

\* a CarefullyPut with a connection-level error has returned while the buffer still has
\* room for the client
Wit_C17 ==
    \E self \in Callers :
        /\ op[self] = "CarefullyPut" /\ err[self] = "ConnError" /\ pc[self] = "idle"
        /\ npc = "done" /\ Len(Idle) < args.size

\* ---- C16 ----
\* some caller's last call is an Empty that has returned
AfterEmpty == \E e \in Callers : op[e] = "Empty" /\ pc[e] = "idle"

\* C16: once an Empty has returned the pool works as before: a Get that finds the
\* buffer empty goes on to Dial, a successful Dial there yields a client that no caller
\* holds, the buffer does not hold and nobody closed; a Put made while the buffer holds
\* fewer than size clients appends its client and closes nothing, and a Put made while
\* the buffer holds size clients leaves the buffer as it is.
Thm_C16 ==
    [][AfterEmpty =>
          \A self \in Callers :
              /\ GetCalled(self) /\ Idle = <<>> =>
                    /\ pc'[self] = "Get_Dial"
                    /\ hist'[self].polled = "empty"
              /\ DialDone(self) /\ err'[self] = "nil" =>
                    /\ hist'[self].dials = 1
                    /\ hist'[self].dialConn = nextConn
                    /\ nextConn' = nextConn + 1
                    /\ closeCount[nextConn] = 0
                    /\ InIdle(nextConn) = 0
                    /\ \A other \in Callers : held[other] # nextConn /\ conn[other] # nextConn
                    /\ (held'[self] = nextConn \/ conn'[self] = nextConn)
              /\ PutCalled(self) /\ Len(Idle) < args.size =>
                    /\ Idle' = Append(Idle, held[self])
                    /\ closeCount' = closeCount
                    /\ pc'[self] = "idle"
              /\ PutCalled(self) /\ Len(Idle) >= args.size =>
                    /\ Idle' = Idle
                    /\ pc'[self] = "Put_Close"]_vars

\* Empty closed the two clients of NewPool and returned; a later Get dialed a third
\* client, and the Put that released it found room in the buffer
Wit_C16 ==
    /\ args.ctor = "NewPool" /\ args.size = 2 /\ npc = "done"
    /\ closeCount[1] = 1 /\ closeCount[2] = 1 /\ closeCount[3] = 0
    /\ \E e \in Callers : op[e] = "Empty" /\ pc[e] = "idle" /\ hist[e].todo = 0
    /\ \E self \in Callers :
          op[self] = "Put" /\ pc[self] = "idle" /\ hist[self].pushed
    /\ \E i \in 1..Len(Idle) : Idle[i] = 3

\* ---- C19 ----
\* C19: the pool calls Close at most once on any client handle (in this model a caller
\* gives up the client it got from Get with its next Put or CarefullyPut, so it
\* releases it at most once).
Cex_C19 == \A c \in Conns : closeCount[c] <= 1

\* ---- C20 ----
\* C20: once NewPool has returned an error from its k-th dial, k = Len(pool) + 1 <= size,
\* it returned no pool, and each of the k-1 clients it had dialed stays as it was for
\* good: never closed, in no pool's buffer, and in no caller's hands, also in the pool
\* NewOrEmptyPool returns afterwards, which starts with an empty buffer.
Thm_C20 ==
    nret.err # "nil" =>
        /\ npc \in {"failed", "NewOrEmptyPool", "done"}
        /\ Len(pool) + 1 <= args.size
        /\ nret.p = NoPool
        /\ npc = "failed" => p = NoPool
        /\ \A i \in 1..Len(pool) :
              /\ closeCount[pool[i]] = 0
              /\ InIdle(pool[i]) = 0
              /\ \A self \in Callers : held[self] # pool[i] /\ conn[self] # pool[i]

\* NewPool failed on its second dial; the replacement pool of NewOrEmptyPool has since
\* dialed, buffered and closed a client of its own, and the first client of the failed
\* call is still open
Wit_C20 ==
    /\ args.ctor = "NewOrEmptyPool" /\ args.size = 2 /\ npc = "done"
    /\ nret.err # "nil" /\ pool = <<1>>
    /\ closeCount[1] = 0 /\ closeCount[2] >= 1
    /\ \E e \in Callers : op[e] = "Empty" /\ pc[e] = "idle"

\* ---- C15: a program that runs the scenario ----
\* The program builds a pool with NewPool(network, addr, 2), acquires two clients (the
\* slots c1 and c2 of its main goroutine), releases both once both are acquired, and
\* then starts three goroutines g1, g2, g3 that each call Get once.
First15 == {"c1", "c2"}
Third15 == {"g1", "g2", "g3"}
Callers15 == First15 \cup Third15
Networks15 == {"tcp", "unix"}
Addrs15 == {"localhost:6379", "/tmp/redis.sock"}

Init15 ==
    /\ args \in [ctor : {"NewPool"}, network : Networks15, addr : Addrs15, size : {2}]
    /\ npc = "NewPool"
    /\ pool = <<>>
    /\ nret = [p |-> NoPool, err |-> "nil"]
    /\ p = NoPool
    /\ nextConn = 1
    /\ closeCount = [c \in Conns |-> 0]
    /\ pc = [self \in Callers15 |-> "idle"]
    /\ op = [self \in Callers15 |-> "none"]
    /\ conn = [self \in Callers15 |-> Nil]
    /\ err = [self \in Callers15 |-> "nil"]
    /\ held = [self \in Callers15 |-> Nil]
    /\ hist = [self \in Callers15 |-> NoHist]

\* both clients are acquired / both are released again
Acquired15 == \A s \in First15 : op[s] = "Get" /\ pc[s] = "idle"
Released15 == \A s \in First15 : op[s] = "Put" /\ pc[s] = "idle"

\* the main goroutine's two Gets, and the Get of each of the three goroutines, which
\* start after both clients are back
Get15(self) ==
    /\ op[self] = "none"
    /\ self \in Third15 => Released15
    /\ Get(self)

\* the main goroutine's two Puts, made after both Gets
Put15(self) ==
    /\ self \in First15
    /\ \A s \in First15 : op[s] \in {"Get", "Put"} /\ pc[s] = "idle"
    /\ op[self] = "Get"
    /\ Put(self)

Next15 ==
    \/ NewPool_Dial
    \/ NewPool_Fill
    \/ \E self \in Callers15 :
        \/ Get15(self)
        \/ Get_Dial(self)
        \/ Put15(self)

Spec15 == Init15 /\ [][Next15]_vars

\* the goroutines of the third step whose Get popped a buffered client, and the number
\* of Dial calls the Gets of a set of callers made
Popped15 == {s \in Third15 : hist[s].polled = "conn"}
RECURSIVE Dials15(_)
Dials15(S) ==
    IF S = {} THEN 0
    ELSE LET s == CHOOSE x \in S : TRUE IN hist[s].dials + Dials15(S \ {s})

\* C15: with a pool of size 2 built by a successful NewPool (buffer 2): when both Gets
\* of the main goroutine have returned, they returned the two clients of the buffer, made
\* no Dial, and the buffer holds 0; when both are put back the buffer holds the same two
\* clients again and none was closed; and when the three concurrent Gets have all
\* returned, in whatever order their steps ran, exactly two of them popped a client
\* (these two got the two buffered clients) and exactly one Dial call was made, to the
\* network and address of the pool.
Thm_C15 ==
    /\ npc = "done" /\ (\A s \in Callers15 : op[s] = "none") =>
          Len(Idle) = 2 /\ Idle = pool /\ p.cap = 2
    /\ Acquired15 =>
          /\ Len(Idle) = 0
          /\ {held[s] : s \in First15} = {pool[1], pool[2]}
          /\ \A s \in First15 : hist[s].polled = "conn" /\ hist[s].dials = 0 /\ err[s] = "nil"
    /\ Released15 /\ (\A g \in Third15 : op[g] = "none") =>
          /\ Len(Idle) = 2
          /\ {Idle[1], Idle[2]} = {pool[1], pool[2]}
          /\ \A c \in Conns : closeCount[c] = 0
          /\ \A s \in First15 : hist[s].pushed /\ held[s] = Nil
    /\ Dials15(Callers15) <= 1
    /\ (\A g \in Third15 : op[g] = "Get" /\ pc[g] = "idle") =>
          /\ Cardinality(Popped15) = 2
          /\ {conn[g] : g \in Popped15} = {pool[1], pool[2]}
          /\ \A g \in Popped15 : held[g] = conn[g] /\ err[g] = "nil" /\ hist[g].dials = 0
          /\ \A g \in Third15 \ Popped15 :
                /\ hist[g].polled = "empty" /\ hist[g].dials = 1
                /\ hist[g].dialNet = args.network /\ hist[g].dialAddr = args.addr
          /\ Dials15(Callers15) = 1

\* the three concurrent Gets have returned: g2 and g3 popped the two buffered clients,
\* g1 polled the buffer after them, found it empty and dialed a third client
Wit_C15 ==
    /\ \A g \in Third15 : op[g] = "Get" /\ pc[g] = "idle"
    /\ hist["g1"].dials = 1 /\ hist["g1"].dialConn = 3
    /\ Popped15 = {"g2", "g3"}

\* ---- C18: a program in which a caller holds a client across an Empty ----
\* Caller c1 calls Get once and keeps what it got; caller c2 uses the pool freely and
\* then, while c1 holds its client, calls Empty and nothing after it; when Empty has
\* returned, c1 releases its client with Put.
Holder18 == "c1"
Emptier18 == "c2"

Get18 ==
    /\ op[Holder18] = "none"
    /\ op[Emptier18] # "Empty"
    /\ Get(Holder18)

Before18 ==
    /\ op[Emptier18] # "Empty"
    /\ \/ Get(Emptier18)
       \/ Put(Emptier18)
       \/ CarefullyPut(Emptier18)

Empty18 ==
    /\ op[Holder18] = "Get" /\ pc[Holder18] = "idle" /\ held[Holder18] # Nil
    /\ op[Emptier18] # "Empty"
    /\ Empty(Emptier18)

\* Empty has returned and c1 still holds its client
Emptied18 ==
    /\ op[Emptier18] = "Empty" /\ pc[Emptier18] = "idle"
    /\ op[Holder18] = "Get" /\ pc[Holder18] = "idle" /\ held[Holder18] # Nil

Put18 ==
    /\ Emptied18
    /\ Put(Holder18)

Next18 ==
    \/ NewPool_Dial
    \/ NewPool_Fill
    \/ NewOrEmptyPool
    \/ Get18
    \/ Before18
    \/ Empty18
    \/ Empty_Close(Emptier18)
    \/ Empty_loop(Emptier18)
    \/ Put18
    \/ \E self \in Callers :
        \/ Get_Dial(self)
        \/ Put_Close(self)

Spec18 == Init /\ [][Next18]_vars

\* Empty is running while c1 holds its client
Emptying18 ==
    /\ op[Emptier18] = "Empty" /\ pc[Emptier18] # "idle"
    /\ held[Holder18] # Nil

\* C18 as stated: while Empty runs it does not close the client c1 holds, and c1's Put
\* after Empty goes to the default branch and closes the client, the buffer being full.
Cex_C18 ==
    [][/\ Emptying18 /\ closeCount' # closeCount =>
              closeCount'[held[Holder18]] = closeCount[held[Holder18]]
       /\ Emptied18 /\ PutCalled(Holder18) =>
              /\ Len(Idle) = args.size
              /\ pc'[Holder18] = "Put_Close"]_vars

\* C18, amended: Empty closes exactly the client it last popped from the buffer, so it
\* closes the client c1 holds only if the buffer held that client too; when Empty has
\* returned and c1 still holds its client the buffer is empty, and c1's Put then pushes
\* the client and closes nothing if size >= 1, and goes on to close it only if size = 0.
Thm_C18 ==
    [][/\ Emptying18 /\ closeCount' # closeCount =>
              /\ pc[Emptier18] = "Empty_Close"
              /\ closeCount' = [closeCount EXCEPT ![conn[Emptier18]] = @ + 1]
              /\ closeCount'[held[Holder18]] # closeCount[held[Holder18]] =>
                     conn[Emptier18] = held[Holder18]
       /\ Empty18 \/ (Emptying18 /\ Empty_loop(Emptier18)) =>
              /\ pc'[Emptier18] = "Empty_Close" =>
                     Idle # <<>> /\ conn'[Emptier18] = Head(Idle) /\ Idle' = Tail(Idle)
              /\ pc'[Emptier18] = "idle" => Idle = <<>> /\ Idle' = <<>>
              /\ closeCount' = closeCount
       /\ Emptied18 => Idle = <<>>
       /\ Emptied18 /\ PutCalled(Holder18) =>
              IF args.size >= 1
              THEN /\ Idle' = <<held[Holder18]>>
                   /\ closeCount' = closeCount
                   /\ pc'[Holder18] = "idle"
                   /\ hist'[Holder18].pushed /\ ~hist'[Holder18].closed
              ELSE /\ Idle' = <<>>
                   /\ conn'[Holder18] = held[Holder18]
                   /\ pc'[Holder18] = "Put_Close"
       /\ Put_Close(Holder18) /\ op[Holder18] = "Put" =>
              /\ args.size = 0
              /\ closeCount' = [closeCount EXCEPT ![conn[Holder18]] = @ + 1]]_vars

\* Empty closed the two clients NewPool had buffered except the one c1 had popped;
\* afterwards c1's Put found the buffer empty and pushed its client, which is still open
Wit_C18 ==
    /\ args.ctor = "NewPool" /\ args.size = 2 /\ npc = "done"
    /\ op[Emptier18] = "Empty" /\ pc[Emptier18] = "idle"
    /\ op[Holder18] = "Put" /\ pc[Holder18] = "idle" /\ hist[Holder18].pushed
    /\ Idle = <<1>> /\ closeCount[1] = 0 /\ closeCount[2] = 1

====
